---------------------------- MODULE Spec2Model ----------------------------
(***************************************************************************)
(* A model of the kiwi.js incremental Cassowary solver (src/src/solver.ts, *)
(* lines 1-744, together with src/src/row.ts).  Numbers are exact          *)
(* rationals <<n, d>> in lowest terms with d > 0.                          *)
(***************************************************************************)
EXTENDS Integers, Sequences, FiniteSets, TLC

(***************************************************************************)
(* Rational arithmetic (the code's `number`).                              *)
(***************************************************************************)
Abs(n) == IF n < 0 THEN -n ELSE n

RECURSIVE GCD(_, _)
GCD(a, b) == IF b = 0 THEN a ELSE GCD(b, a % b)

Norm(n, d) ==
    LET g == GCD(Abs(n), Abs(d))
        sgn == IF d < 0 THEN -1 ELSE 1
    IN <<(sgn * n) \div g, (sgn * d) \div g>>

Q(n) == <<n, 1>>
Zero == Q(0)
QAdd(a, b) == Norm(a[1] * b[2] + b[1] * a[2], a[2] * b[2])
QNeg(a) == <<-a[1], a[2]>>
QMul(a, b) == Norm(a[1] * b[1], a[2] * b[2])
QDiv(a, b) == Norm(a[1] * b[2], a[2] * b[1])
QLt(a, b) == a[1] * b[2] < b[1] * a[2]
QAbs(a) == <<Abs(a[1]), a[2]>>

\* 1 / eps, eps = 1.0e-8
EpsInv == 100000000

\* value < 0.0 ? -value < eps : value < eps, i.e. |n| * EpsInv < d
nearZero(v) == Abs(v[1]) <= (v[2] - 1) \div EpsInv

(***************************************************************************)
(* Symbols                                                                 *)
(***************************************************************************)
ISymbol(type, id) == [type |-> type, id |-> id]
INVALID_SYMBOL == ISymbol("Invalid", -1)

\* the symbols of S in map order (ISymbol.Compare: ascending id)
RECURSIVE SymSeq(_)
SymSeq(S) ==
    IF S = {} THEN <<>>
    ELSE LET m == CHOOSE s \in S : \A t \in S : s.id <= t.id
         IN <<m>> \o SymSeq(S \ {m})

\* first / last symbol of a set in map order, INVALID_SYMBOL when empty
FirstSym(S) ==
    IF S = {} THEN INVALID_SYMBOL
    ELSE CHOOSE s \in S : \A t \in S : s.id <= t.id
LastSym(S) ==
    IF S = {} THEN INVALID_SYMBOL
    ELSE CHOOSE s \in S : \A t \in S : s.id >= t.id

(***************************************************************************)
(* The ordered map (maptype, not part of the sources at hand): a function. *)
(***************************************************************************)
EmptyMap == <<>>
MapErase(m, k) == [j \in (DOMAIN m) \ {k} |-> m[j]]
MapInsert(m, k, v) == [j \in (DOMAIN m) \cup {k} |-> IF j = k THEN v ELSE m[j]]
\* setDefault: the entry of k, created with the default when k is absent
MapSetDefault(m, k, v) == IF k \in DOMAIN m THEN m ELSE MapInsert(m, k, v)

(***************************************************************************)
(* Row (src/src/row.ts)                                                    *)
(***************************************************************************)
Row(constant) == [constant |-> constant, cells |-> EmptyMap]

isConstant(row) == DOMAIN row.cells = {}

allDummies(row) == \A s \in DOMAIN row.cells : s.type = "Dummy"

add(row, value) == [row EXCEPT !.constant = QAdd(@, value)]

insertISymbol(row, symbol, coefficient) ==
    LET cells1 == MapSetDefault(row.cells, symbol, coefficient)
    IN IF nearZero(cells1[symbol])
       THEN [row EXCEPT !.cells = MapErase(cells1, symbol)]
       ELSE [row EXCEPT !.cells = cells1]

RECURSIVE insertCells(_, _, _, _)
insertCells(row, other, coefficient, todo) ==
    IF todo = <<>> THEN row
    ELSE insertCells(insertISymbol(row, Head(todo),
                                   QMul(other.cells[Head(todo)], coefficient)),
                     other, coefficient, Tail(todo))

insertRow(row, other, coefficient) ==
    insertCells([row EXCEPT !.constant = QAdd(@, QMul(other.constant, coefficient))],
                other, coefficient, SymSeq(DOMAIN other.cells))

removeISymbol(row, symbol) == [row EXCEPT !.cells = MapErase(@, symbol)]

reverseSign(row) ==
    [constant |-> QNeg(row.constant),
     cells |-> [s \in DOMAIN row.cells |-> QNeg(row.cells[s])]]

\* solveFor without the erase of the symbol solved for
solveForKeeping(row, symbol) ==
    LET coeff == QDiv(Q(-1), row.cells[symbol])
    IN [constant |-> QMul(row.constant, coeff),
        cells |-> [s \in DOMAIN row.cells |-> QMul(row.cells[s], coeff)]]

solveFor(row, symbol) ==
    LET coeff == QDiv(Q(-1), row.cells[symbol])
        cells1 == MapErase(row.cells, symbol)
    IN [constant |-> QMul(row.constant, coeff),
        cells |-> [s \in DOMAIN cells1 |-> QMul(cells1[s], coeff)]]

solveForEx(row, lhs, rhs) == solveFor(insertISymbol(row, lhs, Q(-1)), rhs)

coefficientFor(row, symbol) ==
    IF symbol \in DOMAIN row.cells THEN row.cells[symbol] ELSE Zero

substitute(row, symbol, other) ==
    IF symbol \in DOMAIN row.cells
    THEN insertRow(removeISymbol(row, symbol), other, row.cells[symbol])
    ELSE row

(***************************************************************************)
(* Strength (src/src/strength.ts)                                          *)
(***************************************************************************)
Max(a, b) == IF a > b THEN a ELSE b
Min(a, b) == IF a < b THEN a ELSE b

create(a, b, c, w) ==
    Max(0, Min(1000, a * w)) * 1000000
    + Max(0, Min(1000, b * w)) * 1000
    + Max(0, Min(1000, c * w))

required == create(1000, 1000, 1000, 1)
strong == create(1, 0, 0, 1)
medium == create(0, 1, 0, 1)
weak == create(0, 0, 1, 1)

\* a clip without its lower end
clipUpper(value) == Min(required, value)

clip(value) == Max(0, Min(required, value))

(***************************************************************************)
(* User variables and constraints (src/src/variable.ts, constraint.ts).    *)
(* A constraint is its id, the terms of its expression in variable order,  *)
(* the expression's constant, the operator and the clipped strength.       *)
(***************************************************************************)
Variables == {"x", "y"}

\* Variable.Compare: x was created before y
VarId(v) == IF v = "x" THEN 0 ELSE 1

Constraint(id, terms, constant, operator, strength) ==
    [id |-> id, terms |-> terms, constant |-> Q(constant),
     operator |-> operator, strength |-> clip(strength)]

\* new Constraint(v, op, rhs, strength): expression = v.minus(rhs)
VarCn(id, v, operator, rhs, strength) ==
    Constraint(id, <<<<v, Q(1)>>>>, -rhs, operator, strength)

\* new Constraint(x.plus(y), op, rhs, strength)
SumCn(id, operator, rhs, strength) ==
    Constraint(id, <<<<"x", Q(1)>>, <<"y", Q(1)>>>>, -rhs, operator, strength)

\* the constraint addEditVariable builds: new Constraint(new Expression(v), Eq,
\* undefined, strength).  It is reachable only through edits[v].constraint.
\* Its id is fresh (CnId++): it is told apart from the ids of the user's
\* constraints, which are positive, by its sign.
EditCn(v, strength, fresh) ==
    Constraint(-(fresh + 1), <<<<v, Q(1)>>>>, 0, "Eq", strength)

(***************************************************************************)
(* Solver (src/src/solver.ts).  The operators below take and return the    *)
(* solver's fields as a record; err is the message of the Error thrown     *)
(* ("" while none has been thrown).                                        *)
(***************************************************************************)
NoRow == [constant |-> Zero, cells |-> EmptyMap, absent |-> TRUE]

NewSolver ==
    [constraints |-> EmptyMap, rows |-> EmptyMap, vars |-> EmptyMap,
     edits |-> EmptyMap, infeasibleRows |-> <<>>, objective |-> Row(Zero),
     artificial |-> NoRow, idTick |-> 0, err |-> "", pivots |-> 0,
     trace |-> <<>>]

Throw(S, msg) == [S EXCEPT !.err = msg]

\* _substitute: every row in map order, then the objective and the artificial row
RECURSIVE substituteRows(_, _, _, _)
substituteRows(S, symbol, row, todo) ==
    IF todo = <<>> THEN S
    ELSE LET key == Head(todo)
             r1 == substitute(S.rows[key], symbol, row)
             S1 == [S EXCEPT !.rows[key] = r1]
             S2 == IF QLt(r1.constant, Zero) /\ key.type # "External"
                   THEN [S1 EXCEPT !.infeasibleRows = Append(@, key)]
                   ELSE S1
         IN substituteRows(S2, symbol, row, Tail(todo))

substituteAll(S, symbol, row) ==
    LET S1 == substituteRows(S, symbol, row, SymSeq(DOMAIN S.rows))
        S2 == [S1 EXCEPT !.objective = substitute(@, symbol, row)]
    IN IF S2.artificial = NoRow THEN S2
       ELSE [S2 EXCEPT !.artificial = substitute(@, symbol, row)]

\* _getEnteringISymbol that takes a symbol whatever the sign of its coefficient
getEnteringISymbolAnySign(objective) ==
    FirstSym({s \in DOMAIN objective.cells :
                 objective.cells[s] # Zero /\ s.type # "Dummy"})

\* _getEnteringISymbol that also takes a Dummy symbol
getEnteringISymbolDummy(objective) ==
    FirstSym({s \in DOMAIN objective.cells : QLt(objective.cells[s], Zero)})

getEnteringISymbol(objective) ==
    FirstSym({s \in DOMAIN objective.cells :
                 QLt(objective.cells[s], Zero) /\ s.type # "Dummy"})

\* the first symbol of C (in map order) whose ratio is the smallest
MinRatioSym(C, ratio) ==
    FirstSym({s \in C : \A t \in C : ~QLt(ratio[t], ratio[s])})

getDualEnteringISymbol(S, row) ==
    LET C == {s \in DOMAIN row.cells :
                 QLt(Zero, row.cells[s]) /\ s.type # "Dummy"}
        r == [s \in C |-> QDiv(coefficientFor(S.objective, s), row.cells[s])]
    IN MinRatioSym(C, r)

\* _getLeavingISymbol that does not pass over the External rows
getLeavingISymbolExternal(S, entering) ==
    LET C == {s \in DOMAIN S.rows :
                 QLt(coefficientFor(S.rows[s], entering), Zero)}
        r == [s \in C |-> QDiv(QNeg(S.rows[s].constant),
                                coefficientFor(S.rows[s], entering))]
    IN MinRatioSym(C, r)

getLeavingISymbol(S, entering) ==
    LET C == {s \in DOMAIN S.rows :
                 s.type # "External"
                 /\ QLt(coefficientFor(S.rows[s], entering), Zero)}
        r == [s \in C |-> QDiv(QNeg(S.rows[s].constant),
                                coefficientFor(S.rows[s], entering))]
    IN MinRatioSym(C, r)

getMarkerLeavingISymbol(S, marker) ==
    LET has == {s \in DOMAIN S.rows : coefficientFor(S.rows[s], marker) # Zero}
        c(s) == coefficientFor(S.rows[s], marker)
        r == [s \in has |-> QDiv(QAbs(S.rows[s].constant), c(s))]
        first == MinRatioSym({s \in has : s.type # "External" /\ QLt(c(s), Zero)}, r)
        second == MinRatioSym({s \in has : s.type # "External" /\ QLt(Zero, c(s))}, r)
        third == LastSym({s \in has : s.type = "External"})
    IN IF first # INVALID_SYMBOL THEN first
       ELSE IF second # INVALID_SYMBOL THEN second
       ELSE third

anyPivotableISymbol(row) ==
    FirstSym({s \in DOMAIN row.cells : s.type \in {"Slack", "Error"}})

\* the most pivots one run of the loop of _optimize or of _dualOptimize is
\* followed for; a loop that would go on ends the call with "no return"
MaxPivots == 8

\* this._substitute( symbol, row ); this.rows.insert( symbol, row )
enterBasis(S, symbol, row) ==
    [substituteAll(S, symbol, row) EXCEPT !.rows = MapInsert(@, symbol, row)]

\* one pivot: the row of `leaving` is solved for `entering` and takes its
\* place; pivots counts the pivots of the call under way
pivot(S, leaving, entering) ==
    enterBasis([S EXCEPT !.rows = MapErase(@, leaving), !.pivots = @ + 1],
               entering, solveForEx(S.rows[leaving], leaving, entering))

\* the record of one turn of a pivot loop, kept for the call under way: the
\* loop, the row it minimises, the rows it met and the symbols it chose
Traced(S, loop, objective, entering, leaving) ==
    [S EXCEPT !.trace = Append(@, [loop |-> loop, objective |-> objective,
                                   rows |-> S.rows, entering |-> entering,
                                   leaving |-> leaving])]

\* _optimize( objective ): target names the row handed in, this.objective or
\* this._artificial
RECURSIVE optimizeLoop(_, _, _)
optimizeLoop(S, target, fuel) ==
    LET objective == IF target = "artificial" THEN S.artificial ELSE S.objective
        entering == getEnteringISymbol(objective)
        leaving == getLeavingISymbol(S, entering)
        T == Traced(S, "optimize", objective, entering, leaving)
    IN IF entering.type = "Invalid" THEN T
       ELSE IF leaving.type = "Invalid" THEN Throw(T, "the objective is unbounded")
       ELSE IF fuel = 0 THEN Throw(S, "no return")
       ELSE optimizeLoop(pivot(T, leaving, entering), target, fuel - 1)

optimize(S, target) == optimizeLoop(S, target, MaxPivots)

RECURSIVE dualOptimizeLoop(_, _)
dualOptimizeLoop(S, fuel) ==
    IF S.infeasibleRows = <<>> THEN S
    ELSE LET n == Len(S.infeasibleRows)
             leaving == S.infeasibleRows[n]
             S1 == [S EXCEPT !.infeasibleRows = SubSeq(@, 1, n - 1)]
         IN IF leaving \in DOMAIN S1.rows /\ QLt(S1.rows[leaving].constant, Zero)
            THEN LET entering == getDualEnteringISymbol(S1, S1.rows[leaving])
                     T == Traced(S1, "dualOptimize", S1.objective, entering, leaving)
                 IN IF entering.type = "Invalid" THEN Throw(T, "dual optimize failed")
                    ELSE IF fuel = 0 THEN Throw(S1, "no return")
                    ELSE dualOptimizeLoop(pivot(T, leaving, entering), fuel - 1)
            ELSE dualOptimizeLoop(S1, fuel)

\* _dualOptimize that drops the queued rows without pivoting
dualOptimizeSkipping(S) == [S EXCEPT !.infeasibleRows = <<>>]

dualOptimize(S) == dualOptimizeLoop(S, MaxPivots)

makeISymbol(S, type) == ISymbol(type, S.idTick)

\* _getVarISymbol that gives the variable the symbol it has just made
getVarISymbolFresh(S, variable) ==
    [S EXCEPT !.vars = MapInsert(@, variable, makeISymbol(S, "External")),
              !.idTick = @ + 1]

\* _getVarISymbol: a symbol is made (and the id counted) on every call
getVarISymbol(S, variable) ==
    [S EXCEPT !.vars = MapSetDefault(@, variable, makeISymbol(S, "External")),
              !.idTick = @ + 1]

\* the loop of _createRow over the terms; C is [S, row]
RECURSIVE createRowTerms(_, _)
createRowTerms(C, terms) ==
    IF terms = <<>> THEN C
    ELSE LET variable == Head(terms)[1]
             coeff == Head(terms)[2]
         IN IF nearZero(coeff) THEN createRowTerms(C, Tail(terms))
            ELSE LET S1 == getVarISymbol(C.S, variable)
                     symbol == S1.vars[variable]
                     row1 == IF symbol \in DOMAIN S1.rows
                             THEN insertRow(C.row, S1.rows[symbol], coeff)
                             ELSE insertISymbol(C.row, symbol, coeff)
                 IN createRowTerms([S |-> S1, row |-> row1], Tail(terms))

\* _createRow for a constraint read with the given operator: [S, row, tag]
createRowFor(S, constraint, operator) ==
    LET C == createRowTerms([S |-> S, row |-> Row(constraint.constant)],
                            constraint.terms)
        S0 == C.S
        strength == constraint.strength
        coeff == IF operator = "Le" THEN Q(1) ELSE Q(-1)
        a == ISymbol(IF operator = "Eq"
                     THEN (IF strength < required THEN "Error" ELSE "Dummy")
                     ELSE "Slack", S0.idTick)
        b == ISymbol("Error", S0.idTick + 1)
        D == IF operator \in {"Le", "Ge"}
             THEN IF strength < required
                  THEN [S |-> [S0 EXCEPT !.idTick = @ + 2,
                                         !.objective = insertISymbol(@, b, Q(strength))],
                        row |-> insertISymbol(insertISymbol(C.row, a, coeff), b, QNeg(coeff)),
                        tag |-> [marker |-> a, other |-> b]]
                  ELSE [S |-> [S0 EXCEPT !.idTick = @ + 1],
                        row |-> insertISymbol(C.row, a, coeff),
                        tag |-> [marker |-> a, other |-> INVALID_SYMBOL]]
             ELSE IF strength < required
                  THEN [S |-> [S0 EXCEPT !.idTick = @ + 2,
                                         !.objective = insertISymbol(
                                             insertISymbol(@, a, Q(strength)),
                                             b, Q(strength))],
                        row |-> insertISymbol(insertISymbol(C.row, a, Q(-1)), b, Q(1)),
                        tag |-> [marker |-> a, other |-> b]]
                  ELSE [S |-> [S0 EXCEPT !.idTick = @ + 1],
                        row |-> insertISymbol(C.row, a, Q(1)),
                        tag |-> [marker |-> a, other |-> INVALID_SYMBOL]]
    IN IF QLt(D.row.constant, Zero) THEN [D EXCEPT !.row = reverseSign(@)] ELSE D

\* a _createRow that gives the slack of >= the sign of the slack of <=
createRowSameSlack(S, constraint) ==
    createRowFor(S, constraint,
                 IF constraint.operator = "Ge" THEN "Le" ELSE constraint.operator)

\* a _createRow that reads every strength as weak
createRowWeak(S, constraint) ==
    createRowFor(S, [constraint EXCEPT !.strength = weak], constraint.operator)

\* _createRow: [S, row, tag]
createRow(S, constraint) ==
    createRowFor(S, constraint, constraint.operator)

\* takes a subject among the External symbols only
chooseSubjectExternal(row, tag) ==
    FirstSym({s \in DOMAIN row.cells : s.type = "External"})

chooseSubject(row, tag) ==
    LET ext == FirstSym({s \in DOMAIN row.cells : s.type = "External"})
    IN IF ext # INVALID_SYMBOL THEN ext
       ELSE IF tag.marker.type \in {"Slack", "Error"}
               /\ QLt(coefficientFor(row, tag.marker), Zero) THEN tag.marker
       ELSE IF tag.other.type \in {"Slack", "Error"}
               /\ QLt(coefficientFor(row, tag.other), Zero) THEN tag.other
       ELSE INVALID_SYMBOL

\* removes art from every row, not from the objective
removeArtRows(S, art) ==
    [S EXCEPT !.rows = [s \in DOMAIN @ |-> removeISymbol(@[s], art)]]

\* removes art from every row and from the objective
removeArt(S, art) ==
    [S EXCEPT !.rows = [s \in DOMAIN @ |-> removeISymbol(@[s], art)],
              !.objective = removeISymbol(@, art)]

\* _addWithArtificialVariable, its first part: the artificial row enters the
\* tableau under the symbol art and is minimised
artificialOptimized(S, row) ==
    optimize([S EXCEPT !.idTick = @ + 1,
                       !.rows = MapInsert(@, makeISymbol(S, "Slack"), row),
                       !.artificial = row], "artificial")

\* _addWithArtificialVariable, the rest, from the minimised tableau S2:
\* [S, success]
artificialRemoved(S2, art) ==
    LET success == nearZero(S2.artificial.constant)
        S3 == Traced([S2 EXCEPT !.artificial = NoRow], "artificial",
                     S2.artificial, art, INVALID_SYMBOL)
        basicRow == S2.rows[art]
        S4 == [S3 EXCEPT !.rows = MapErase(@, art)]
        entering == anyPivotableISymbol(basicRow)
    IN IF S2.err # "" THEN [S |-> S2, success |-> FALSE]
       ELSE IF art \notin DOMAIN S2.rows
            THEN [S |-> removeArt(S3, art), success |-> success]
       ELSE IF isConstant(basicRow) THEN [S |-> S4, success |-> success]
       ELSE IF entering.type = "Invalid" THEN [S |-> S4, success |-> FALSE]
       ELSE [S |-> removeArt(enterBasis(S4, entering,
                                        solveForEx(basicRow, art, entering)), art),
             success |-> success]

\* _addWithArtificialVariable: [S, success]
addWithArtificialVariable(S, row) ==
    artificialRemoved(artificialOptimized(S, row), makeISymbol(S, "Slack"))

\* addConstraint from `this.constraints.insert( constraint, tag )` on
addConstraintInsert(S, constraint, tag) ==
    optimize([S EXCEPT !.constraints = MapInsert(@, constraint.id, tag)],
             "objective")

\* addConstraint with no subject: A is what _addWithArtificialVariable returned
addConstraintArtificial(A, constraint, tag) ==
    IF A.S.err # "" THEN A.S
    ELSE IF ~A.success THEN Throw(A.S, "unsatisfiable constraint")
    ELSE addConstraintInsert(A.S, constraint, tag)

\* addConstraint past _createRow, which returned C
addConstraintRow(C, constraint) ==
    LET subject0 == chooseSubject(C.row, C.tag)
        dummies == subject0.type = "Invalid" /\ allDummies(C.row)
        subject == IF dummies THEN C.tag.marker ELSE subject0
    IN IF dummies /\ ~nearZero(C.row.constant)
       THEN Throw(C.S, "unsatisfiable constraint")
       ELSE IF subject.type = "Invalid"
       THEN addConstraintArtificial(addWithArtificialVariable(C.S, C.row),
                                    constraint, C.tag)
       ELSE addConstraintInsert(enterBasis(C.S, subject, solveFor(C.row, subject)),
                                constraint, C.tag)

\* addConstraint past its duplicate check
addConstraintNew(S, constraint) == addConstraintRow(createRow(S, constraint), constraint)

\* addConstraint without its duplicate check
addConstraintUnchecked(S, constraint) == addConstraintNew(S, constraint)

addConstraint(S, constraint) ==
    IF constraint.id \in DOMAIN S.constraints THEN Throw(S, "duplicate constraint")
    ELSE addConstraintNew(S, constraint)

removeMarkerEffects(S, marker, strength) ==
    IF marker \in DOMAIN S.rows
    THEN [S EXCEPT !.objective = insertRow(@, S.rows[marker], Q(-strength))]
    ELSE [S EXCEPT !.objective = insertISymbol(@, marker, Q(-strength))]

removeConstraintEffects(S, cn, tag) ==
    LET S1 == IF tag.marker.type = "Error"
              THEN removeMarkerEffects(S, tag.marker, cn.strength) ELSE S
    IN IF tag.other.type = "Error"
       THEN removeMarkerEffects(S1, tag.other, cn.strength) ELSE S1

\* removeConstraint of a constraint that is held
removeConstraintHeld(S, constraint) ==
    LET cnTag == S.constraints[constraint.id]
        S1 == [S EXCEPT !.constraints = MapErase(@, constraint.id)]
        S2 == removeConstraintEffects(S1, constraint, cnTag)
        marker == cnTag.marker
        leaving == getMarkerLeavingISymbol(S2, marker)
        row == solveForEx(S2.rows[leaving], leaving, marker)
        S3 == [S2 EXCEPT !.rows = MapErase(@, leaving)]
    IN IF marker \in DOMAIN S2.rows
       THEN optimize([S2 EXCEPT !.rows = MapErase(@, marker)], "objective")
       ELSE IF leaving.type = "Invalid" THEN Throw(S2, "failed to find leaving row")
       ELSE optimize(substituteAll(S3, marker, row), "objective")

\* removeConstraint that returns without an error when the constraint is unknown
removeConstraintSilent(S, constraint) ==
    IF constraint.id \notin DOMAIN S.constraints THEN S
    ELSE removeConstraintHeld(S, constraint)

\* removeConstraint that leaves the constraint in the constraints map
removeConstraintKeeping(S, constraint) ==
    IF constraint.id \notin DOMAIN S.constraints THEN Throw(S, "unknown constraint")
    ELSE [removeConstraintHeld(S, constraint) EXCEPT !.constraints = S.constraints]

removeConstraint(S, constraint) ==
    IF constraint.id \notin DOMAIN S.constraints THEN Throw(S, "unknown constraint")
    ELSE removeConstraintHeld(S, constraint)

hasConstraint(S, constraint) == constraint.id \in DOMAIN S.constraints

\* addEditVariable past its addConstraint( cn ), which left S1
addEditVariableInsert(S1, variable, cn) ==
    IF S1.err # "" THEN S1
    ELSE [S1 EXCEPT !.edits = MapInsert(@, variable,
             [tag |-> S1.constraints[cn.id], constraint |-> cn,
              constant |-> Zero])]

\* addEditVariable without its test of the clipped strength
addEditVariableAnyStrength(S, variable, strength) ==
    IF variable \in DOMAIN S.edits THEN Throw(S, "duplicate edit variable")
    ELSE addEditVariableInsert(
             addConstraint(S, EditCn(variable, clip(strength), S.idTick)),
             variable, EditCn(variable, clip(strength), S.idTick))

addEditVariable(S, variable, strength) ==
    IF variable \in DOMAIN S.edits THEN Throw(S, "duplicate edit variable")
    ELSE IF clip(strength) = required THEN Throw(S, "bad strength")
    ELSE addEditVariableInsert(
             addConstraint(S, EditCn(variable, clip(strength), S.idTick)),
             variable, EditCn(variable, clip(strength), S.idTick))

\* removeEditVariable that leaves the variable in edits
removeEditVariableKeeping(S, variable) ==
    IF variable \notin DOMAIN S.edits THEN Throw(S, "unknown edit variable")
    ELSE removeConstraint(S, S.edits[variable].constraint)

removeEditVariable(S, variable) ==
    IF variable \notin DOMAIN S.edits THEN Throw(S, "unknown edit variable")
    ELSE removeConstraint([S EXCEPT !.edits = MapErase(@, variable)],
                          S.edits[variable].constraint)

hasEditVariable(S, variable) == variable \in DOMAIN S.edits

\* the last loop of suggestValue, over the rows in map order
RECURSIVE suggestRows(_, _, _, _)
suggestRows(S, marker, delta, todo) ==
    IF todo = <<>> THEN S
    ELSE LET key == Head(todo)
             coeff == coefficientFor(S.rows[key], marker)
             r1 == add(S.rows[key], QMul(delta, coeff))
             S1 == IF coeff # Zero THEN [S EXCEPT !.rows[key] = r1] ELSE S
             S2 == IF coeff # Zero /\ QLt(r1.constant, Zero) /\ key.type # "External"
                   THEN [S1 EXCEPT !.infeasibleRows = Append(@, key)]
                   ELSE S1
         IN suggestRows(S2, marker, delta, Tail(todo))

\* adds value to the constant of the basic row of symbol, queueing it when negative
suggestBasic(S, symbol, value) ==
    LET r1 == add(S.rows[symbol], value)
        S1 == [S EXCEPT !.rows[symbol] = r1]
    IN IF QLt(r1.constant, Zero)
       THEN [S1 EXCEPT !.infeasibleRows = Append(@, symbol)]
       ELSE S1

\* suggestValue of a variable that is an edit variable
suggestValueKnown(S, variable, value) ==
    LET info == S.edits[variable]
        delta == QAdd(value, QNeg(info.constant))
        S1 == [S EXCEPT !.edits[variable].constant = value]
        marker == info.tag.marker
        other == info.tag.other
    IN IF marker \in DOMAIN S1.rows
       THEN dualOptimize(suggestBasic(S1, marker, QNeg(delta)))
       ELSE IF other \in DOMAIN S1.rows
       THEN dualOptimize(suggestBasic(S1, other, delta))
       ELSE dualOptimize(suggestRows(S1, marker, delta, SymSeq(DOMAIN S1.rows)))

\* suggestValue that returns without an error when the variable is unknown
suggestValueSilent(S, variable, value) ==
    IF variable \notin DOMAIN S.edits THEN S
    ELSE suggestValueKnown(S, variable, value)

suggestValue(S, variable, value) ==
    IF variable \notin DOMAIN S.edits THEN Throw(S, "unknown edit variable")
    ELSE suggestValueKnown(S, variable, value)

\* an updateVariables that writes only the variables whose symbol is basic
updateVariablesBasic(S, old) ==
    [v \in DOMAIN old |->
        IF v \in DOMAIN S.vars /\ S.vars[v] \in DOMAIN S.rows
        THEN S.rows[S.vars[v]].constant
        ELSE old[v]]

\* updateVariables: the values written, per registered variable
updateVariables(S, old) ==
    [v \in DOMAIN old |->
        IF v \in DOMAIN S.vars
        THEN IF S.vars[v] \in DOMAIN S.rows THEN S.rows[S.vars[v]].constant ELSE Zero
        ELSE old[v]]

(***************************************************************************)
(* The program: one solver, the user's variables x and y, and the         *)
(* constraints the user has built.                                         *)
(***************************************************************************)
Catalogue ==
    <<VarCn(1, "x", "Ge", 0, required),
      VarCn(2, "x", "Le", 20, required),
      VarCn(3, "x", "Le", 5, required),
      VarCn(4, "x", "Eq", 10, required),
      VarCn(5, "x", "Eq", 20, required),
      VarCn(6, "x", "Eq", 15, strong),
      SumCn(7, "Eq", 20, required)>>

\* the values the user suggests, and the strengths edit variables are asked at
Suggestions == {42, -5}
EditStrengths == {strong, required}

\* the variables the user edits
EditVariables == {"x"}

\* no constraint is built once the symbol id counter has passed MaxTick
MaxTick == 4

\* no value is suggested once MaxSuggest values have been
MaxSuggest == 2

VARIABLES
    catalogue,      \* the constraints the user has built, by id
    constraints,    \* constraint id -> tag
    rows,           \* basic symbol -> row
    vars,           \* variable -> external symbol
    edits,          \* variable -> edit info
    infeasibleRows, \* the pending stack of row symbols
    objective,      \* the objective row
    artificial,     \* the artificial row, NoRow when null
    idTick,         \* the symbol id counter
    value,          \* Variable.value of x and y
    last,           \* the last call of the user: [op, arg, err]
    failed,         \* some call so far has thrown
    suggested,      \* the number of suggestValue calls so far
    phase,          \* "adding": only successful addConstraint calls so far;
                    \* "removing": then only removeConstraint calls, each of the
                    \* constraint admitted last among those held; "other"
    admitted        \* unless phase is "other": the constraints held, in
                    \* admission order

solverVars == <<constraints, rows, vars, edits, infeasibleRows, objective,
                artificial, idTick>>
vars_ == <<catalogue, constraints, rows, vars, edits, infeasibleRows, objective,
           artificial, idTick, value, last, failed, suggested, phase, admitted>>

Cur ==
    [constraints |-> constraints, rows |-> rows, vars |-> vars, edits |-> edits,
     infeasibleRows |-> infeasibleRows, objective |-> objective,
     artificial |-> artificial, idTick |-> idTick, err |-> "", pivots |-> 0,
     trace |-> <<>>]

\* the call returned or threw: the solver is as the call left it. A call
\* whose loop was followed for MaxPivots pivots without coming to its end is
\* recorded with err = "no return"
Commit(R, op, arg) ==
    /\ constraints' = R.constraints
    /\ rows' = R.rows
    /\ vars' = R.vars
    /\ edits' = R.edits
    /\ infeasibleRows' = R.infeasibleRows
    /\ objective' = R.objective
    /\ artificial' = R.artificial
    /\ idTick' = R.idTick
    /\ last' = [op |-> op, arg |-> arg, err |-> R.err, pivots |-> R.pivots]
    /\ failed' = (failed \/ R.err # "")
    /\ UNCHANGED catalogue

\* a solver just constructed, and the variables x and y just created
NewProgram ==
    /\ constraints = NewSolver.constraints
    /\ rows = NewSolver.rows
    /\ vars = NewSolver.vars
    /\ edits = NewSolver.edits
    /\ infeasibleRows = NewSolver.infeasibleRows
    /\ objective = NewSolver.objective
    /\ artificial = NewSolver.artificial
    /\ idTick = NewSolver.idTick
    /\ value = [v \in Variables |-> Zero]
    /\ last = [op |-> "new", arg |-> 0, err |-> "", pivots |-> 0]
    /\ failed = FALSE
    /\ suggested = 0
    /\ admitted = <<>>
    /\ phase = "adding"

Init ==
    /\ catalogue = Catalogue
    /\ NewProgram

\* solver.addConstraint(catalogue[c])
CallAddConstraint(c) ==
    /\ Commit(addConstraint(Cur, catalogue[c]), "addConstraint", c)
    /\ phase' = IF phase = "adding" /\ last'.err = "" THEN "adding" ELSE "other"
    /\ admitted' = IF phase' = "adding" THEN Append(admitted, c) ELSE <<>>
    /\ UNCHANGED <<value, suggested>>

AddConstraint(c) ==
    /\ idTick <= MaxTick
    /\ CallAddConstraint(c)

RemoveConstraint(c) ==
    /\ Commit(removeConstraint(Cur, catalogue[c]), "removeConstraint", c)
    /\ phase' = IF phase \in {"adding", "removing"} /\ last'.err = ""
                   /\ admitted # <<>> /\ admitted[Len(admitted)] = c
                THEN "removing" ELSE "other"
    /\ admitted' = IF phase' = "removing"
                   THEN SubSeq(admitted, 1, Len(admitted) - 1) ELSE <<>>
    /\ UNCHANGED <<value, suggested>>

\* solver.addEditVariable(v, strength)
CallAddEditVariable(v, strength) ==
    /\ Commit(addEditVariable(Cur, v, strength), "addEditVariable", v)
    /\ phase' = "other"
    /\ admitted' = <<>>
    /\ UNCHANGED <<value, suggested>>

AddEditVariable(v, strength) ==
    /\ idTick <= MaxTick
    /\ CallAddEditVariable(v, strength)

RemoveEditVariable(v) ==
    /\ Commit(removeEditVariable(Cur, v), "removeEditVariable", v)
    /\ phase' = "other"
    /\ admitted' = <<>>
    /\ UNCHANGED <<value, suggested>>

SuggestValue(v, n) ==
    /\ suggested < MaxSuggest
    /\ suggested' = suggested + 1
    /\ Commit(suggestValue(Cur, v, Q(n)), "suggestValue", v)
    /\ phase' = "other"
    /\ admitted' = <<>>
    /\ UNCHANGED value

UpdateVariables ==
    /\ value' = updateVariables(Cur, value)
    /\ last' = [op |-> "updateVariables", arg |-> 0, err |-> "", pivots |-> 0]
    /\ UNCHANGED <<catalogue, solverVars, failed, suggested, phase, admitted>>

Next ==
    \/ \E c \in DOMAIN catalogue : AddConstraint(c)
    \/ \E c \in DOMAIN catalogue : RemoveConstraint(c)
    \/ \E v \in EditVariables, s \in EditStrengths : AddEditVariable(v, s)
    \/ \E v \in EditVariables : RemoveEditVariable(v)
    \/ \E v \in EditVariables, n \in Suggestions : SuggestValue(v, n)
    \/ UpdateVariables

Spec == Init /\ [][Next]_vars_

(***************************************************************************)
(* Scenarios: the caller builds one of a few small systems, adds its       *)
(* constraints to a fresh solver in some order, and then either removes    *)
(* one of them or edits x; values are published at any time.               *)
(***************************************************************************)
\* x >= 0 required, for an edited x
BoundCatalogue == <<VarCn(1, "x", "Ge", 0, required)>>

\* x = a medium against x = b weak
HierarchyCatalogue(a, b) ==
    <<VarCn(1, "x", "Eq", a, medium), VarCn(2, "x", "Eq", b, weak)>>
HierarchyCatalogues ==
    {HierarchyCatalogue(100, 0), HierarchyCatalogue(0, 100), HierarchyCatalogue(7, 7)}

\* x + y = 20 required against x = 0 weak and y = 0 weak
CompromiseCatalogue ==
    <<SumCn(1, "Eq", 20, required), VarCn(2, "x", "Eq", 0, weak),
      VarCn(3, "y", "Eq", 0, weak)>>

\* lo <= x <= hi required around x = t at a strength below required
ChainCatalogue(lo, hi, t, strength) ==
    <<VarCn(1, "x", "Ge", lo, required), VarCn(2, "x", "Le", hi, required),
      VarCn(3, "x", "Eq", t, strength)>>
ChainCatalogues ==
    {ChainCatalogue(10, 20, t, s) : t \in {10, 15, 20}, s \in {strong, weak}}
    \cup {ChainCatalogue(10, 10, 10, strong), ChainCatalogue(0, 20, 0, medium)}

\* inequalities below required that pull against each other, and a required
\* equality on new Expression(x, [0, y]): y has the coefficient 0
SoftCatalogue ==
    <<VarCn(1, "x", "Ge", 10, weak), VarCn(2, "x", "Le", 5, strong),
      Constraint(3, <<<<"x", Q(1)>>, <<"y", Zero>>>>, -7, "Eq", required)>>

ScenarioCatalogues ==
    {BoundCatalogue, CompromiseCatalogue, SoftCatalogue}
        \cup HierarchyCatalogues \cup ChainCatalogues

\* every constraint of the catalogue is held
AllHeld == \A c \in DOMAIN catalogue : hasConstraint(Cur, catalogue[c])

ScenarioInit ==
    /\ catalogue \in ScenarioCatalogues
    /\ NewProgram

ScenarioAdd(c) ==
    /\ phase = "adding"
    /\ ~hasConstraint(Cur, catalogue[c])
    /\ CallAddConstraint(c)

ScenarioRemove(c) ==
    /\ phase = "adding"
    /\ AllHeld
    /\ RemoveConstraint(c)

ScenarioEdit ==
    /\ phase = "adding"
    /\ AllHeld
    /\ CallAddEditVariable("x", strong)

ScenarioSuggest(n) ==
    /\ hasEditVariable(Cur, "x")
    /\ SuggestValue("x", n)

ScenarioNext ==
    \/ \E c \in DOMAIN catalogue : ScenarioAdd(c)
    \/ \E c \in DOMAIN catalogue : ScenarioRemove(c)
    \/ ScenarioEdit
    \/ \E n \in Suggestions : ScenarioSuggest(n)
    \/ UpdateVariables

Scenarios == ScenarioInit /\ [][ScenarioNext]_vars_

(***************************************************************************)
(* Properties                                                              *)
(***************************************************************************)
\* v >= -eps
GeNegEps(v) == v[1] >= 0 \/ Abs(v[1]) <= v[2] \div EpsInv

Feasible ==
    \A s \in DOMAIN rows : s.type # "External" => GeNegEps(rows[s].constant)

Optimal ==
    \A s \in DOMAIN objective.cells :
        s.type # "Dummy" => GeNegEps(objective.cells[s])

\* the value of a constraint's expression at the published values
ExprValue(cn) ==
    LET RECURSIVE Sum(_)
        Sum(terms) == IF terms = <<>> THEN cn.constant
                      ELSE QAdd(QMul(Head(terms)[2], value[Head(terms)[1]]),
                                Sum(Tail(terms)))
    IN Sum(cn.terms)

\* within eps of satisfying the relation
Satisfied(cn) ==
    LET e == ExprValue(cn)
    IN CASE cn.operator = "Le" -> GeNegEps(QNeg(e))
         [] cn.operator = "Ge" -> GeNegEps(e)
         [] cn.operator = "Eq" -> GeNegEps(e) /\ GeNegEps(QNeg(e))

\* the required constraints of the user the solver holds
HeldRequired ==
    {c \in DOMAIN catalogue : c \in DOMAIN constraints /\ catalogue[c].strength = required}

\* the public operations that change the solver
Mutations ==
    {"addConstraint", "removeConstraint", "addEditVariable", "removeEditVariable",
     "suggestValue"}

\* the last call was a mutation and returned normally
Returned == last.op \in Mutations /\ last.err = ""

\* C1: once a mutation has returned normally, every row whose basic symbol is
\* not External has a constant >= -eps.
C1_Feasibility == Returned => Feasible

\* C2: once a mutation has returned normally, no cell of the objective with a
\* non-Dummy symbol has a coefficient below -eps.
C2_Optimality == Returned => Optimal

\* C3: between public operations each basic symbol labels one row (rows is
\* keyed by symbol, and no two keys share an id, which is what the map
\* compares), and no row's cells contain the row's own basic symbol.
C3_BasisStructure ==
    /\ \A s, t \in DOMAIN rows : s.id = t.id => s = t
    /\ \A s \in DOMAIN rows : s \notin DOMAIN rows[s].cells

\* C3 happens: a removeConstraint has pivoted, and a row other than a
\* variable's has cells
C3_Witness ==
    /\ last.op = "removeConstraint" /\ last.err = ""
    /\ \E s \in DOMAIN rows : s.type # "External" /\ ~isConstant(rows[s])
    /\ \E s \in DOMAIN rows : s.type = "External" /\ ~isConstant(rows[s])

\* C4: when a mutation has returned normally, the pending list infeasibleRows
\* is empty and the artificial row is absent.
C4_NothingPending == Returned => (infeasibleRows = <<>> /\ artificial = NoRow)

\* C5: after calls that all returned normally and then updateVariables, the
\* published values satisfy every required constraint held, within eps.
C5_RequiredSatisfied ==
    (~failed /\ last.op = "updateVariables") =>
        \A c \in HeldRequired : Satisfied(catalogue[c])

\* C6: an addConstraint that fails with 'unsatisfiable constraint' leaves
\* rows, objective, constraints, edits and infeasibleRows as they were.
C6_FailureAtomic ==
    [][(last'.op = "addConstraint" /\ last'.err = "unsatisfiable constraint")
        => UNCHANGED <<rows, objective, constraints, edits, infeasibleRows>>]_vars_

\* C7: constraints added to a fresh solver and then all removed in reverse
\* admission order leave rows and constraints empty and the objective with
\* no cells and constant 0.
C7_ReverseRemoval ==
    (phase = "removing" /\ admitted = <<>>) =>
        (rows = EmptyMap /\ constraints = EmptyMap /\ objective = Row(Zero))

\* C8: a held constraint stays held with the same tag through every call
\* that is not its own removeConstraint; after removeConstraint(c) it is
\* not held.
C8_Lifecycle ==
    [][\A c \in DOMAIN catalogue :
        /\ (c \in DOMAIN constraints
            /\ ~(last'.op = "removeConstraint" /\ last'.arg = c))
           => (c \in DOMAIN constraints' /\ constraints'[c] = constraints[c])
        /\ (last'.op = "removeConstraint" /\ last'.arg = c)
           => ~hasConstraint([constraints |-> constraints'], catalogue[c])]_vars_

\* C8 happens: a held constraint has been removed while another stays held
C8_Witness ==
    /\ last.op = "removeConstraint" /\ last.err = ""
    /\ last.arg \notin DOMAIN constraints
    /\ \E c \in DOMAIN catalogue : hasConstraint(Cur, catalogue[c])

\* C9: addConstraint of a constraint already held fails with the
\* duplicate-constraint error and changes nothing of the solver.
C9_Duplicate ==
    [][(last'.op = "addConstraint" /\ last'.arg \in DOMAIN constraints)
        => (last'.err = "duplicate constraint" /\ UNCHANGED solverVars)]_vars_

\* C9 happens: a held constraint has been added again
C9_Witness ==
    /\ last.op = "addConstraint" /\ last.err = "duplicate constraint"
    /\ last.arg \in DOMAIN constraints
    /\ rows # EmptyMap

\* C10: removeConstraint of a constraint not held fails with the
\* unknown-constraint error and changes nothing of the solver.
C10_Unknown ==
    [][(last'.op = "removeConstraint" /\ last'.arg \notin DOMAIN constraints)
        => (last'.err = "unknown constraint" /\ UNCHANGED solverVars)]_vars_

\* C10 happens: removeConstraint of a constraint not held has been refused
\* while other constraints are held
C10_Witness ==
    /\ last.op = "removeConstraint" /\ last.err = "unknown constraint"
    /\ constraints # EmptyMap

\* C11: addEditVariable of a variable that is an edit variable fails with
\* the duplicate-edit-variable error, and addEditVariable of another variable
\* at a strength that clips to required fails with the bad-strength error;
\* both leave edits, constraints, rows and objective as they were.
C11_EditRejected ==
    [][\A v \in EditVariables, s \in EditStrengths :
        AddEditVariable(v, s) =>
          /\ hasEditVariable(Cur, v) =>
               /\ last'.err = "duplicate edit variable"
               /\ UNCHANGED <<edits, constraints, rows, objective>>
          /\ (~hasEditVariable(Cur, v) /\ clip(s) = required) =>
               /\ last'.err = "bad strength"
               /\ UNCHANGED <<edits, constraints, rows, objective>>]_vars_

\* C11 happens: an edit variable at required strength has been refused while
\* the solver holds constraints
C11_Witness ==
    /\ last.op = "addEditVariable" /\ last.err = "bad strength"
    /\ rows # EmptyMap

\* C12: suggestValue and removeEditVariable of a variable that is not an edit
\* variable fail with the unknown-edit-variable error and change nothing of
\* the solver.
C12_UnknownEdit ==
    [][(last'.op \in {"suggestValue", "removeEditVariable"}
        /\ ~hasEditVariable(Cur, last'.arg))
        => (last'.err = "unknown edit variable" /\ UNCHANGED solverVars)]_vars_

\* C12 happens: a value has been suggested for a variable that is not an
\* edit variable, while the solver holds constraints
C12_Witness ==
    /\ last.op = "suggestValue" /\ last.err = "unknown edit variable"
    /\ ~hasEditVariable(Cur, last.arg)
    /\ constraints # EmptyMap

\* the value last suggested for x (suggestValue keeps it in the edit info)
LastSuggested == edits["x"].constant

\* C13: with required x >= 0 held and x edited at strong, after one or more
\* suggestValue calls and updateVariables, x.value is the value suggested
\* last when that is >= 0, and 0 when it is negative.
C13_EditUnderBound ==
    (/\ catalogue = BoundCatalogue
     /\ ~failed
     /\ AllHeld
     /\ hasEditVariable(Cur, "x")
     /\ suggested > 0
     /\ last.op = "updateVariables")
    => value["x"] = (IF QLt(LastSuggested, Zero) THEN Zero ELSE LastSuggested)

\* C13 happens: two values have been suggested, the last of them -5, and the
\* values published
C13_Witness ==
    /\ catalogue = BoundCatalogue
    /\ ~failed
    /\ AllHeld
    /\ hasEditVariable(Cur, "x")
    /\ suggested = 2
    /\ LastSuggested = Q(-5)
    /\ last.op = "updateVariables"

\* the right-hand side a of constraint c of the catalogue, a constraint v = a
Rhs(c) == QNeg(catalogue[c].constant)

\* C14: with x = a medium and x = b weak both added to a fresh solver, in
\* either order, updateVariables yields x.value = a; after removeConstraint
\* of the medium constraint and updateVariables, x.value = b.
C14_StrengthHierarchy ==
    (catalogue \in HierarchyCatalogues /\ ~failed /\ last.op = "updateVariables") =>
        /\ (phase = "adding" /\ AllHeld) => value["x"] = Rhs(1)
        /\ (phase # "adding" /\ edits = EmptyMap /\ ~hasConstraint(Cur, catalogue[1]))
             => value["x"] = Rhs(2)

\* C14 happens: the medium constraint has been removed from the two and the
\* values published
C14_Witness ==
    /\ catalogue = HierarchyCatalogue(100, 0)
    /\ ~failed
    /\ phase # "adding" /\ edits = EmptyMap
    /\ DOMAIN constraints = {2}
    /\ last.op = "updateVariables"

\* C15: after required x + y = 20, weak x = 0 and weak y = 0 have been added
\* to a fresh solver in that order, updateVariables yields x.value = 10 and
\* y.value = 10.
C15_Compromise ==
    (/\ catalogue = CompromiseCatalogue
     /\ ~failed
     /\ phase = "adding" /\ admitted = <<1, 2, 3>>
     /\ last.op = "updateVariables")
    => (value["x"] = Q(10) /\ value["y"] = Q(10))

\* C15 as the code has it: when required x + y = 20, weak x = 0 and weak
\* y = 0 are added in that order every addition is accepted, and the values
\* published then put the whole of the 20 on y.
C15_CompromiseVertex ==
    (/\ catalogue = CompromiseCatalogue
     /\ phase = "adding" /\ admitted = <<1, 2, 3>>)
    => /\ ~failed
       /\ last.op = "updateVariables" => (value["x"] = Q(0) /\ value["y"] = Q(20))

\* C15 happens: the three constraints have been added in the order of the
\* claim and the values published
C15_Witness ==
    /\ catalogue = CompromiseCatalogue
    /\ ~failed
    /\ phase = "adding" /\ admitted = <<1, 2, 3>>
    /\ last.op = "updateVariables"
    /\ value["y"] = Q(20)

\* C16: with required x >= lo, required x <= hi and x = t below required
\* (lo <= t <= hi) added to a fresh solver in any order, every addition is
\* accepted and updateVariables yields x.value = t.
C16_Chain ==
    (catalogue \in ChainCatalogues /\ phase = "adding") =>
        /\ ~failed
        /\ (AllHeld /\ last.op = "updateVariables") => value["x"] = Rhs(3)

\* C16 happens: x >= 10, x <= 20 and strong x = 15 have been added, the
\* equality first, and the values published
C16_Witness ==
    /\ catalogue = ChainCatalogue(10, 20, 15, strong)
    /\ ~failed
    /\ phase = "adding" /\ AllHeld /\ admitted[1] = 3
    /\ last.op = "updateVariables"

\* C17: updateVariables sets the value of every variable registered in vars
\* to the constant of the row of its symbol when that symbol is basic and to
\* 0 otherwise, and leaves rows, objective, constraints, edits and vars
\* unchanged; no other solver operation writes a variable's value.
C17_UpdateFrame ==
    [][/\ last'.op = "updateVariables" =>
            /\ \A v \in DOMAIN vars :
                   value'[v] = IF vars[v] \in DOMAIN rows
                               THEN rows[vars[v]].constant ELSE Zero
            /\ UNCHANGED <<rows, objective, constraints, edits, vars>>
       /\ last'.op # "updateVariables" => value' = value]_vars_

\* C17 happens: updateVariables has just written the constant of a basic
\* row to one registered variable and 0 to another whose symbol is not basic
C17_Witness ==
    /\ last.op = "updateVariables"
    /\ \E v \in DOMAIN vars : vars[v] \in DOMAIN rows /\ value[v] = rows[vars[v]].constant
                               /\ value[v] # Zero
    /\ \E v \in DOMAIN vars : vars[v] \notin DOMAIN rows /\ value[v] = Zero

\* C18: from every reachable state every call of addConstraint,
\* removeConstraint, addEditVariable, removeEditVariable and suggestValue
\* comes to its end, returning or throwing: neither the loop of _optimize
\* nor the loop of _dualOptimize goes past MaxPivots pivots.
C18_Termination == last.err # "no return"

\* C18 happens: a call has come to its end after pivoting more than once
C18_Witness ==
    /\ last.op \in {"addConstraint", "suggestValue"}
    /\ last.pivots >= 2

(***************************************************************************)
(* Expression (src/src/constraint.ts) and the expressions a user builds    *)
(***************************************************************************)
NoExpression == [terms |-> EmptyMap, constant |-> Zero]

\* one argument of new Expression(...): kind tells what it is, n its number,
\* v its variable, e its expression
Item(kind, n, v, e) == [kind |-> kind, n |-> n, v |-> v, e |-> e]
NumberItem(n) == Item("number", n, "", NoExpression)
VariableItem(v) == Item("variable", Zero, v, NoExpression)
ExpressionItem(e) == Item("expression", Zero, "", e)
\* [n, v] and [n, e]
PairVariable(n, v) == Item("pairVariable", n, v, NoExpression)
PairExpression(n, e) == Item("pairExpression", n, "", e)
\* the arguments parseArgs throws on: an array not of length 2, an array
\* whose item 0 is not a number, an array whose item 1 is neither a variable
\* nor an expression, and anything else
BadItems ==
    {Item(k, Zero, "", NoExpression) :
        k \in {"arrayLength", "arrayNoNumber", "arrayOther", "other"}}

\* the loop over terms2: terms.setDefault(first, () => second * factor) for
\* each of its pairs; a variable terms has already keeps its coefficient
setDefaultTerms(terms, terms2, factor) ==
    [v \in DOMAIN terms \cup DOMAIN terms2 |->
        IF v \in DOMAIN terms THEN terms[v] ELSE QMul(terms2[v], factor)]

\* parseArgs from its i-th argument on; P is [terms, constant, err]
RECURSIVE parseArgsFrom(_, _)
parseArgsFrom(P, args) ==
    IF args = <<>> THEN P
    ELSE LET item == Head(args)
             rest == Tail(args)
         IN CASE item.kind = "number" ->
                    parseArgsFrom([P EXCEPT !.constant = QAdd(@, item.n)], rest)
              [] item.kind = "variable" ->
                    parseArgsFrom([P EXCEPT !.terms = MapSetDefault(@, item.v, Q(1))], rest)
              [] item.kind = "expression" ->
                    parseArgsFrom([P EXCEPT !.constant = QAdd(@, item.e.constant),
                                            !.terms = setDefaultTerms(@, item.e.terms, Q(1))],
                                  rest)
              [] item.kind = "arrayLength" ->
                    [P EXCEPT !.err = "array must have length 2"]
              [] item.kind = "arrayNoNumber" ->
                    [P EXCEPT !.err = "array item 0 must be a number"]
              [] item.kind = "pairVariable" ->
                    parseArgsFrom([P EXCEPT !.terms = MapSetDefault(@, item.v, item.n)], rest)
              [] item.kind = "pairExpression" ->
                    parseArgsFrom([P EXCEPT !.constant = QAdd(@, QMul(item.e.constant, item.n)),
                                            !.terms = setDefaultTerms(@, item.e.terms, item.n)],
                                  rest)
              [] item.kind = "arrayOther" ->
                    [P EXCEPT !.err = "array item 1 must be a variable or expression"]
              [] OTHER ->
                    [P EXCEPT !.err = "invalid Expression argument"]

parseArgs(args) ==
    parseArgsFrom([terms |-> EmptyMap, constant |-> Zero, err |-> ""], args)

\* new Expression(...args): [terms, constant, err]
Expression(args) == parseArgs(args)

\* the operand is a number, a variable or an expression:
\* typeof value === "number" ? -value : [-1, value]
Negated(operand) ==
    CASE operand.kind = "number" -> NumberItem(QNeg(operand.n))
      [] operand.kind = "variable" -> PairVariable(Q(-1), operand.v)
      [] OTHER -> PairExpression(Q(-1), operand.e)

\* Variable.plus, Variable.minus, Expression.plus, Expression.minus
variablePlus(v, operand) == Expression(<<VariableItem(v), operand>>)
variableMinus(v, operand) == Expression(<<VariableItem(v), Negated(operand)>>)
expressionPlus(e, operand) == Expression(<<ExpressionItem(e), operand>>)
expressionMinus(e, operand) == Expression(<<ExpressionItem(e), Negated(operand)>>)

\* the most expressions built in one run, and the most arguments of one
\* new Expression(...)
MaxExpressions == 2
MaxArgs == 2

\* what a user hands to plus and minus, and to new Expression(...), when the
\* expressions in built are at hand
Operands(built) ==
    {NumberItem(Q(2))} \cup {VariableItem(v) : v \in Variables}
        \cup {ExpressionItem(built[i]) : i \in DOMAIN built}
Items(built) ==
    Operands(built) \cup {PairVariable(Q(3), v) : v \in Variables}
        \cup {PairExpression(Q(-1), built[i]) : i \in DOMAIN built}
        \cup BadItems
ArgLists(built) ==
    UNION {[1..n -> Items(built)] : n \in 0..MaxArgs}

\* the call returned the expression R or threw: an expression built joins
\* the catalogue; last.arg lists what the call was asked to sum, each item
\* with the sign the call gives it
Built(R, op, summed) ==
    /\ Len(catalogue) < MaxExpressions
    /\ catalogue' = IF R.err = "" THEN Append(catalogue, [terms |-> R.terms,
                                                           constant |-> R.constant])
                    ELSE catalogue
    /\ last' = [op |-> op, arg |-> summed, err |-> R.err, pivots |-> 0]
    /\ failed' = (failed \/ R.err # "")
    /\ UNCHANGED <<solverVars, value, suggested, phase, admitted>>

NewExpression(args) ==
    Built(Expression(args), "Expression", [i \in DOMAIN args |-> <<Q(1), args[i]>>])

VariablePlus(v, operand) ==
    Built(variablePlus(v, operand), "plus",
          <<<<Q(1), VariableItem(v)>>, <<Q(1), operand>>>>)

VariableMinus(v, operand) ==
    Built(variableMinus(v, operand), "minus",
          <<<<Q(1), VariableItem(v)>>, <<Q(-1), operand>>>>)

ExpressionPlus(e, operand) ==
    Built(expressionPlus(e, operand), "plus",
          <<<<Q(1), ExpressionItem(e)>>, <<Q(1), operand>>>>)

ExpressionMinus(e, operand) ==
    Built(expressionMinus(e, operand), "minus",
          <<<<Q(1), ExpressionItem(e)>>, <<Q(-1), operand>>>>)

ExpressionsInit == catalogue = <<>> /\ NewProgram

ExpressionsNext ==
    \/ \E args \in ArgLists(catalogue) : NewExpression(args)
    \/ \E v \in Variables, operand \in Operands(catalogue) : VariablePlus(v, operand)
    \/ \E v \in Variables, operand \in Operands(catalogue) : VariableMinus(v, operand)
    \/ \E i \in DOMAIN catalogue, operand \in Operands(catalogue) :
           ExpressionPlus(catalogue[i], operand)
    \/ \E i \in DOMAIN catalogue, operand \in Operands(catalogue) :
           ExpressionMinus(catalogue[i], operand)

Expressions == ExpressionsInit /\ [][ExpressionsNext]_vars_

\* the coefficient an expression gives v, 0 when v is not among its terms
CoefficientOf(e, v) == IF v \in DOMAIN e.terms THEN e.terms[v] ELSE Zero

\* the occurrences of v in one item, scaled, and the constant of the item
ItemCoefficient(item, v) ==
    CASE item.kind = "variable" -> IF item.v = v THEN Q(1) ELSE Zero
      [] item.kind = "pairVariable" -> IF item.v = v THEN item.n ELSE Zero
      [] item.kind = "expression" -> CoefficientOf(item.e, v)
      [] item.kind = "pairExpression" -> QMul(item.n, CoefficientOf(item.e, v))
      [] OTHER -> Zero
ItemConstant(item) ==
    CASE item.kind = "number" -> item.n
      [] item.kind = "expression" -> item.e.constant
      [] item.kind = "pairExpression" -> QMul(item.n, item.e.constant)
      [] OTHER -> Zero

\* the sums over a list of signed items
RECURSIVE SumCoefficient(_, _)
SumCoefficient(summed, v) ==
    IF summed = <<>> THEN Zero
    ELSE QAdd(QMul(Head(summed)[1], ItemCoefficient(Head(summed)[2], v)),
              SumCoefficient(Tail(summed), v))
RECURSIVE SumConstant(_)
SumConstant(summed) ==
    IF summed = <<>> THEN Zero
    ELSE QAdd(QMul(Head(summed)[1], ItemConstant(Head(summed)[2])),
              SumConstant(Tail(summed)))

\* the expression the last call built
LastBuilt == catalogue[Len(catalogue)]

\* C19: an expression built by new Expression(...), plus or minus gives each
\* variable the sum of all its scaled occurrences among the arguments, and
\* has for constant the sum of their scaled constants.
C19_SumsCoefficients ==
    (last.op \in {"Expression", "plus", "minus"} /\ last.err = "") =>
        /\ \A v \in Variables : CoefficientOf(LastBuilt, v) = SumCoefficient(last.arg, v)
        /\ LastBuilt.constant = SumConstant(last.arg)

(***************************************************************************)
(* Strengths a user creates and hands to new Constraint(...)               *)
(***************************************************************************)
\* the most constraints built in one run
MaxBuilt == 1

\* the parts handed to Strength.create, and the numbers handed to
\* new Constraint(...) as a strength without it
StrengthParts == {0, 1, 2, 999, 1000}
RawStrengths == {-1, 0, 5, required - 1, required, required + 1}

\* new Constraint(x, Operator.Eq, 0, strength): its strength is clipped
ConstraintBuilt(strength, op, arg) ==
    /\ Len(catalogue) < MaxBuilt
    /\ catalogue' = Append(catalogue,
                           VarCn(Len(catalogue) + 1, "x", "Eq", 0, strength))
    /\ last' = [op |-> op, arg |-> arg, err |-> "", pivots |-> 0]
    /\ UNCHANGED <<solverVars, value, failed, suggested, phase, admitted>>

\* new Constraint(x, Operator.Eq, 0, Strength.create(a, b, c))
ConstraintCreated(a, b, c) ==
    ConstraintBuilt(create(a, b, c, 1), "create", <<a, b, c>>)

\* new Constraint(x, Operator.Eq, 0, n)
ConstraintClipped(n) == ConstraintBuilt(n, "clip", n)

StrengthsInit == catalogue = <<>> /\ NewProgram

StrengthsNext ==
    \/ \E a \in StrengthParts, b \in StrengthParts, c \in StrengthParts :
           ConstraintCreated(a, b, c)
    \/ \E n \in RawStrengths : ConstraintClipped(n)

Strengths == StrengthsInit /\ [][StrengthsNext]_vars_

\* the three parts read back from a strength
Decompose(s) == <<s \div 1000000, (s % 1000000) \div 1000, s % 1000>>

\* C20: for a, b, c in [0, 1000], create(a, b, c) is a * 10^6 + b * 10^3 + c
\* and clip leaves it as it is; a, b, c can be read back from it when b and c
\* are below 1000; 0 <= weak < medium < strong < required, required being
\* create(1000, 1000, 1000); and clip takes every value into [0, required].
C20_StrengthArithmetic ==
    /\ 0 <= weak /\ weak < medium /\ medium < strong /\ strong < required
    /\ required = 1000 * 1000000 + 1000 * 1000 + 1000
    /\ last.op = "create" =>
           LET a == last.arg[1]
               b == last.arg[2]
               c == last.arg[3]
               s == create(a, b, c, 1)
           IN /\ s = a * 1000000 + b * 1000 + c
              /\ clip(s) = s
              /\ LastBuilt.strength = s
              /\ (b < 1000 /\ c < 1000) => Decompose(s) = <<a, b, c>>
    /\ last.op = "clip" =>
           /\ 0 <= clip(last.arg) /\ clip(last.arg) <= required
           /\ LastBuilt.strength = clip(last.arg)
           /\ (0 <= last.arg /\ last.arg <= required) => clip(last.arg) = last.arg

\* C20 happens: a constraint has been built with create(1000, 999, 999), the
\* largest strength whose parts can be read back
C20_Witness ==
    /\ last.op = "create"
    /\ last.arg = <<1000, 999, 999>>
    /\ LastBuilt.strength = 1000999999

\* the coefficient c as a cell keeps it: a cell below epsilon is erased
Kept(c) == IF nearZero(c) THEN Zero ELSE c

\* the rows of the tableau, with the objective
TableauRows == {rows[k] : k \in DOMAIN rows} \cup {objective}

\* C21: insertSymbol(s, c) on a row adds c to the coefficient the row has
\* for s (0 when it has none) and erases the cell when the sum is below
\* epsilon; insertRow(other, m) leaves each cell at old + m * other[s]; and
\* no cell of a row of the tableau is below epsilon.
C21_InsertAdds ==
    \A row \in TableauRows :
        /\ \A s \in DOMAIN row.cells : ~nearZero(row.cells[s])
        /\ \A s \in DOMAIN row.cells, c \in {Q(1), Q(-1)} :
               LET sum == QAdd(row.cells[s], c)
                   after == insertISymbol(row, s, c)
               IN /\ coefficientFor(after, s) = Kept(sum)
                  /\ nearZero(sum) => s \notin DOMAIN after.cells
        /\ \A other \in TableauRows, m \in {Q(1), Q(-2)} :
               LET after == insertRow(row, other, m)
               IN /\ after.constant = QAdd(row.constant, QMul(other.constant, m))
                  /\ \A s \in DOMAIN row.cells \cup DOMAIN other.cells :
                         coefficientFor(after, s)
                             = Kept(QAdd(coefficientFor(row, s),
                                         QMul(m, coefficientFor(other, s))))

\* the symbols of C whose ratio is the smallest
MinRatioSyms(C, ratio) == {s \in C : \A t \in C : ~QLt(ratio[t], ratio[s])}

\* the rows the three-tier rule may take for a marker: among the rows with
\* a non-External basic symbol and a negative coefficient for the marker
\* those of smallest -constant / coefficient; failing that, among the
\* non-External rows with a positive coefficient those of smallest
\* constant / coefficient; failing that, the last External row that has the
\* marker; INVALID_SYMBOL when no row has it
MarkerRule(marker) ==
    LET c == [s \in DOMAIN rows |-> coefficientFor(rows[s], marker)]
        has == {s \in DOMAIN rows : c[s] # Zero}
        neg == {s \in has : s.type # "External" /\ QLt(c[s], Zero)}
        pos == {s \in has : s.type # "External" /\ QLt(Zero, c[s])}
        ext == {s \in has : s.type = "External"}
    IN IF neg # {}
       THEN MinRatioSyms(neg, [s \in neg |-> QDiv(QNeg(rows[s].constant), c[s])])
       ELSE IF pos # {}
       THEN MinRatioSyms(pos, [s \in pos |-> QDiv(rows[s].constant, c[s])])
       ELSE {LastSym(ext)}

\* the markers removeConstraint would have to pivot into the basis
NonBasicMarkers ==
    {constraints[id].marker : id \in DOMAIN constraints} \ DOMAIN rows

\* C22: when removeConstraint must pivot a non-basic marker into the basis,
\* the leaving row is the one the three-tier rule names, and the call fails
\* when no row has the marker.
C22_MarkerLeaving ==
    \A marker \in NonBasicMarkers :
        getMarkerLeavingISymbol(Cur, marker) \in MarkerRule(marker)

\* the results of the public calls that can be made in the current state
Calls ==
    {addConstraint(Cur, catalogue[c]) : c \in DOMAIN catalogue}
        \cup {removeConstraint(Cur, catalogue[c]) : c \in DOMAIN catalogue}
        \cup {addEditVariable(Cur, v, s) : v \in EditVariables, s \in EditStrengths}
        \cup {removeEditVariable(Cur, v) : v \in EditVariables}
        \cup {suggestValue(Cur, v, Q(n)) : v \in EditVariables, n \in Suggestions}

\* the non-Dummy cells of a row with a negative coefficient, and the
\* non-External rows with a negative coefficient for a symbol
Improving(target) ==
    {s \in DOMAIN target.cells :
        QLt(target.cells[s], Zero) /\ s.type # "Dummy"}
Limiting(tableau, entering) ==
    {s \in DOMAIN tableau :
        s.type # "External" /\ QLt(coefficientFor(tableau[s], entering), Zero)}
LeavingRatio(tableau, entering, s) ==
    QDiv(QNeg(tableau[s].constant), coefficientFor(tableau[s], entering))

\* one turn of the loop of optimize follows the rule
PrimalTurn(t, isLast, err) ==
    LET improving == Improving(t.objective)
        limiting == Limiting(t.rows, t.entering)
    IN IF improving = {}
       THEN t.entering = INVALID_SYMBOL /\ t.leaving = INVALID_SYMBOL
       ELSE /\ t.entering \in improving
            /\ \A s \in improving : t.entering.id <= s.id
            /\ IF limiting = {}
               THEN t.leaving = INVALID_SYMBOL /\ isLast
                    /\ err = "the objective is unbounded"
               ELSE /\ t.leaving \in limiting
                    /\ \A s \in limiting :
                           LET mine == LeavingRatio(t.rows, t.entering, t.leaving)
                               its == LeavingRatio(t.rows, t.entering, s)
                           IN ~QLt(its, mine) /\ (its = mine => t.leaving.id <= s.id)

\* C23: each turn of optimize takes as entering symbol the lowest-id
\* non-Dummy cell of the target with a negative coefficient and as leaving
\* symbol the first non-External row with a negative coefficient for it that
\* minimises -constant / coefficient; it returns when there is no entering
\* symbol and throws the unbounded-objective error when there is no leaving
\* row; neither optimize nor dualOptimize takes a Dummy as entering symbol.
C23_PivotRule ==
    \A R \in Calls : \A i \in DOMAIN R.trace :
        /\ R.trace[i].entering.type # "Dummy"
        /\ R.trace[i].loop = "optimize" =>
               PrimalTurn(R.trace[i], i = Len(R.trace), R.err)

\* C23 happens: addConstraint has returned after a pivot of optimize
C23_Witness ==
    /\ last.op = "addConstraint" /\ last.err = ""
    /\ last.pivots >= 1

\* the constraints a tag can be recorded for: those of the catalogue and
\* those addEditVariable built
KnownConstraints ==
    {catalogue[c] : c \in DOMAIN catalogue}
        \cup {edits[v].constraint : v \in DOMAIN edits}

\* the tag matches the relation and the strength of the constraint
TagShape(cn, tag) ==
    CASE cn.operator \in {"Le", "Ge"} ->
             /\ tag.marker.type = "Slack"
             /\ IF cn.strength < required THEN tag.other.type = "Error"
                ELSE tag.other = INVALID_SYMBOL
      [] cn.operator = "Eq" /\ cn.strength < required ->
             /\ tag.marker.type = "Error" /\ tag.other.type = "Error"
             /\ tag.marker # tag.other
      [] OTHER ->
             tag.marker.type = "Dummy" /\ tag.other = INVALID_SYMBOL

Dummies(row) == {s \in DOMAIN row.cells : s.type = "Dummy"}
ErrorsOf(tag) == {s \in {tag.marker, tag.other} : s.type = "Error"}

\* every constraint held has a tag of its shape
TagsShaped ==
    \A id \in DOMAIN constraints :
        \E cn \in KnownConstraints : cn.id = id /\ TagShape(cn, constraints[id])

\* _createRow enters the Error symbols of the tag in the objective with the
\* strength of the constraint for coefficient
ErrorsWeighed ==
    \A c \in DOMAIN catalogue :
        LET C == createRow(Cur, catalogue[c])
        IN /\ TagShape(catalogue[c], C.tag)
           /\ \A s \in ErrorsOf(C.tag) :
                  coefficientFor(C.S.objective, s) = Q(catalogue[c].strength)

\* C24: every constraint held has a tag of its shape, the Error symbols of
\* a constraint are added to the objective with its strength for
\* coefficient, and addConstraint adds no Dummy symbol to the objective.
C24_TagShape ==
    /\ TagsShaped
    /\ ErrorsWeighed
    /\ \A c \in DOMAIN catalogue :
           Dummies(addConstraint(Cur, catalogue[c]).objective) \subseteq Dummies(objective)

\* C24 as the code has it: every constraint held has a tag of its shape,
\* _createRow adds the Error symbols to the objective with the strength for
\* coefficient and adds no Dummy symbol to it; a Dummy symbol can enter the
\* objective later in addConstraint, by substitution.
C24_TagShapeCreated ==
    /\ TagsShaped
    /\ ErrorsWeighed
    /\ \A c \in DOMAIN catalogue :
           Dummies(createRow(Cur, catalogue[c]).S.objective) = Dummies(objective)

\* C24 happens: an inequality below required, an equality below required
\* and a required equality are held, and the objective has a Dummy symbol
C24_Witness ==
    /\ \E id \in DOMAIN constraints : constraints[id].marker.type = "Slack"
                                       /\ constraints[id].other.type = "Error"
    /\ \E id \in DOMAIN constraints : constraints[id].marker.type = "Dummy"
    /\ \E v \in DOMAIN edits : hasConstraint(Cur, edits[v].constraint)
    /\ Dummies(objective) # {}

\* the symbol art is nowhere in the solver R
Gone(R, art) ==
    /\ art \notin DOMAIN R.rows
    /\ \A s \in DOMAIN R.rows : art \notin DOMAIN R.rows[s].cells
    /\ art \notin DOMAIN R.objective.cells

\* C25: a call that takes the artificial-variable path admits the
\* constraint if and only if the constant of the artificial row after
\* optimize(artificial) is within epsilon of zero; when the call returns,
\* art is no basic symbol, is in no row and not in the objective, and
\* artificial is absent.
C25_Artificial ==
    \A R \in Calls : \A i \in DOMAIN R.trace :
        R.trace[i].loop = "artificial" =>
            /\ R.err # "unsatisfiable constraint"
                   <=> nearZero(R.trace[i].objective.constant)
            /\ R.err = "" => Gone(R, R.trace[i].entering) /\ R.artificial = NoRow

\* C25 happens: from this state a call takes the artificial-variable path,
\* pivots, and admits its constraint
C25_Witness ==
    \E R \in Calls : \E i \in DOMAIN R.trace :
        /\ R.trace[i].loop = "artificial" /\ R.err = ""
        /\ nearZero(R.trace[i].objective.constant)
        /\ R.pivots >= 1

\* C26: EditInfo.constant of an edit variable is the value most recently
\* suggested for it, 0 when there was none: addEditVariable records 0,
\* suggestValue(v, value) records value, and no other call changes it; and
\* suggestValue(v, value) with value equal to EditInfo.constant leaves every
\* row and the objective unchanged.
C26_SuggestDelta ==
    /\ \A v \in EditVariables, s \in EditStrengths :
           LET R == addEditVariable(Cur, v, s)
           IN R.err = "" => R.edits[v].constant = Zero
    /\ \A v \in DOMAIN edits :
           /\ \A n \in Suggestions :
                  suggestValue(Cur, v, Q(n)).edits[v].constant = Q(n)
           /\ \A c \in DOMAIN catalogue :
                  /\ addConstraint(Cur, catalogue[c]).edits[v].constant = edits[v].constant
                  /\ removeConstraint(Cur, catalogue[c]).edits[v].constant
                         = edits[v].constant
           /\ \A w \in DOMAIN edits \ {v} :
                  /\ removeEditVariable(Cur, w).edits[v].constant = edits[v].constant
                  /\ \A n \in Suggestions :
                         suggestValue(Cur, w, Q(n)).edits[v].constant = edits[v].constant
           /\ LET R == suggestValue(Cur, v, edits[v].constant)
              IN R.err = "" /\ R.rows = rows /\ R.objective = objective

\* the constraints below required that are not held: those of the
\* catalogue, and the one addEditVariable would build for a new edit
\* variable
SoftNew ==
    {catalogue[c] : c \in {d \in DOMAIN catalogue :
                              /\ catalogue[d].strength < required
                              /\ ~hasConstraint(Cur, catalogue[d])}}
        \cup {EditCn(v, strong, idTick) : v \in EditVariables \ DOMAIN edits}

\* the solver invariants: feasible, optimal, every basic symbol on one row
\* and not in its own cells, nothing pending
SolverInvariants ==
    /\ Feasible /\ Optimal
    /\ \A s \in DOMAIN rows : s \notin DOMAIN rows[s].cells
    /\ infeasibleRows = <<>> /\ artificial = NoRow

Internals(S) ==
    {s \in DOMAIN S.rows \cup DOMAIN S.objective.cells
           \cup UNION {DOMAIN S.rows[k].cells : k \in DOMAIN S.rows} :
        s.type \in {"Slack", "Error", "Dummy"}}

\* the markers and others of the constraints a solver holds
TagSymbols(S) ==
    UNION {{S.constraints[c].marker, S.constraints[c].other} :
              c \in DOMAIN S.constraints}

\* C28: every Slack, Error or Dummy symbol of the tableau or the objective
\* is the marker or the other of a constraint that is held, and after
\* removeConstraint(c) has returned neither symbol of c's tag is left in the
\* tableau or the objective.
C28_NoLeak ==
    /\ Internals(Cur) \subseteq TagSymbols(Cur)
    /\ \A cn \in KnownConstraints :
           LET R == removeConstraint(Cur, cn)
           IN (hasConstraint(Cur, cn) /\ R.err = "") =>
                  Internals(R) \cap {constraints[cn.id].marker,
                                     constraints[cn.id].other} = {}

\* the edit variables after a call, from those before it: addEditVariable
\* that returns adds its variable, removeEditVariable of an edit variable
\* removes it, and no other call changes them
EditsFollow ==
    LET v == last'.arg
    IN CASE last'.op = "addEditVariable" /\ last'.err = "" ->
                /\ ~hasEditVariable(Cur, v)
                /\ DOMAIN edits' = DOMAIN edits \cup {v}
         [] last'.op = "removeEditVariable"
                /\ last'.err # "unknown edit variable" ->
                /\ hasEditVariable(Cur, v)
                /\ DOMAIN edits' = DOMAIN edits \ {v}
         [] OTHER -> DOMAIN edits' = DOMAIN edits

\* the constraint of every EditInfo is held under the EditInfo's tag, whose
\* marker and other are Error symbols
EditsHeld ==
    \A v \in DOMAIN edits :
        /\ hasConstraint(Cur, edits[v].constraint)
        /\ constraints[edits[v].constraint.id] = edits[v].tag
        /\ edits[v].tag.marker.type = "Error"
        /\ edits[v].tag.other.type = "Error"

\* removeEditVariable(v) that returns leaves the constraint of v not held
\* and v free to be added as an edit variable again
EditsReleased ==
    \A v \in DOMAIN edits :
        LET R == removeEditVariable(Cur, v)
            A == addEditVariable([R EXCEPT !.pivots = 0, !.trace = <<>>], v, strong)
        IN R.err = "" =>
               /\ ~hasConstraint(R, edits[v].constraint)
               /\ ~hasEditVariable(R, v)
               /\ A.err = "" /\ hasEditVariable(A, v)

\* C29: hasEditVariable(v) is true exactly for the variables added by
\* addEditVariable and not yet removed by removeEditVariable; the constraint
\* of each is held with a tag equal to EditInfo.tag whose marker and other
\* are Error symbols; after removeEditVariable(v) the constraint is no
\* longer held and v can be added as an edit variable again.
C29_EditRegistry ==
    /\ DOMAIN edits = {}
    /\ [](EditsHeld /\ EditsReleased)
    /\ [][EditsFollow]_vars_

\* C29 happens: beside other constraints, the edit variable x has been
\* removed by a call that returned, and x can be made an edit variable again
C29_Witness ==
    /\ last.op = "removeEditVariable" /\ last.err = ""
    /\ ~hasEditVariable(Cur, last.arg)
    /\ DOMAIN constraints # {}
    /\ addEditVariable(Cur, last.arg, strong).err = ""

\* the symbols of the solver: the keys and cells of the rows, the cells of
\* the objective, the symbols of the variables and of the tags
Allocated ==
    (DOMAIN rows \cup DOMAIN objective.cells
        \cup UNION {DOMAIN rows[k].cells : k \in DOMAIN rows}
        \cup {vars[v] : v \in DOMAIN vars}
        \cup TagSymbols(Cur)) \ {INVALID_SYMBOL}

\* the variables of the terms of a constraint whose coefficient is not
\* within epsilon of zero
Registering(cn) ==
    {cn.terms[i][1] : i \in {j \in DOMAIN cn.terms : ~nearZero(cn.terms[j][2])}}

\* symbols have ids of their own, below the counter; variables have
\* External symbols of their own
SymbolsDistinct ==
    /\ \A s, t \in Allocated : s.id = t.id => s = t
    /\ \A s \in Allocated : s.id >= 0 /\ s.id < idTick
    /\ \A v \in DOMAIN vars : vars[v].type = "External"
    /\ \A v, w \in DOMAIN vars : vars[v] = vars[w] => v = w

\* across a call: the counter does not decrease, a variable keeps its
\* symbol, and addConstraint past its test for a duplicate registers the
\* variables of its terms that are not near zero and no other variable,
\* whether it returns or throws
SymbolsKept ==
    /\ idTick' >= idTick
    /\ \A v \in DOMAIN vars : v \in DOMAIN vars' /\ vars'[v] = vars[v]
    /\ (last'.op = "addConstraint" /\ last'.err # "duplicate constraint") =>
           DOMAIN vars' = DOMAIN vars \cup Registering(catalogue[last'.arg])

\* C30: the symbols of a solver have distinct ids, the id counter never
\* decreases, each variable of vars has one External symbol that never
\* changes (failed addConstraint calls included, which leave the variables
\* they met registered), distinct variables have distinct symbols, and a
\* term whose coefficient is within epsilon of zero does not register its
\* variable.
C30_Bookkeeping ==
    /\ [](SymbolsDistinct)
    /\ [][SymbolsKept]_vars_

\* C30 happens: x = 7 with a term 0 * y has been added to a solver that
\* knows x: x has the symbol it had, y has none
C30_Witness ==
    /\ catalogue = SoftCatalogue
    /\ last.op = "addConstraint" /\ last.arg = 3 /\ last.err = ""
    /\ DOMAIN constraints = {1, 2, 3}
    /\ DOMAIN vars = {"x"}

=============================================================================
